---- MODULE Spec2Model ----
(***************************************************************************)
(* Model of the SHM tip jar: the browser client (WalletConnect, CreatorCard,*)
(* TipModal, the web3Service singleton, apiService) and the Express store. *)
(* Every await of the client is one step of a process; the wallet provider,*)
(* the chain RPC endpoint and the HTTP transport answer nondeterministically.*)
(***************************************************************************)
EXTENDS Integers, Sequences, FiniteSets, TLC

\* ------------------------------------------------------------------ bounds
\* Send-tip attempts started from the tip dialog.
MaxAttempts == 1
\* Send-tip attempts started from the tip dialog where attempts may overlap.
MaxOverlap == 2
\* Direct invocations of the service's sendTip by an arbitrary caller.
MaxCalls == 1
\* Invocations of switchToShardeum.
MaxSwitchCalls == 2
\* Listeners of one event kind registered through the service at a time.
MaxListeners == 2
\* checkConnection calls where accountsChanged events can make more of them.
MaxChecks == 2
\* Digits before the point of an amount string taken through the conversions.
MaxWhole == 2
\* Digits after the point, and after sixteen zeros, of such an amount string.
MaxFrac == 2
\* POST /api/tips requests sent to the store directly.
MaxPosts == 2
\* Milliseconds that pass at the store.
MaxClock == 1
\* Creators added through POST /api/creators.
MaxCreators == 2

\* --------------------------------------------------------------- constants
SHARDEUM_CHAIN_ID == "0x1f93"
\* Another chain the wallet can be on (Ethereum mainnet).
OTHER_CHAIN_ID == "0x1"
Chains == {SHARDEUM_CHAIN_ID, OTHER_CHAIN_ID}

\* The account the wallet exposes, as eth_accounts returns it.
Account == "0xa1"
\* A second account of the wallet.
Account2 == "0xb2"
\* The seed creators of the store: creator 1 carries a placeholder address.
CreatorIds == {"1", "2"}
CreatorAddress(id) == IF id = "1" THEN "<ADDRESS_HERE>" ELSE "0x26d6"

\* The account's balance on the chain in wei, and what provider.getBalance /
\* formatEther yields for it.
ChainBalanceWei == "2000000000000000000"
ChainBalance == "2.0"

\* Recipients and amounts a caller of sendTip can pass.
ApiRecipients == {"0x26d6", "<ADDRESS_HERE>"}
ApiAmounts == {"0", "1", "3", "abc"}

\* Amount strings the amount field can hold.
AmountStrings == {"", "0", "1", "3"}

None == "none"
NoHash == 0

\* The provider error code "unrecognized chain", and the codes a rejected
\* wallet_switchEthereumChain carries (4001: the user rejected the request).
UnrecognizedChain == 4902
SwitchErrorCodes == {UnrecognizedChain, 4001}

\* ----------------------------------------------------------- pure helpers
\* A JavaScript number: NaN, or a value.
NaN == [nan |-> TRUE, v |-> 0]
Num(n) == [nan |-> FALSE, v |-> n]

\* parseFloat on the strings of the model.
parseFloat(s) ==
  CASE s = "0" -> Num(0)
    [] s = "1" -> Num(1)
    [] s = "3" -> Num(3)
    [] s = "2" -> Num(2)
    [] s = "2.0" -> Num(2)
    [] OTHER -> NaN

\* JavaScript comparisons: false whenever an operand is NaN.
JsLeq(x, y) == ~x.nan /\ ~y.nan /\ x.v <= y.v
JsGt(x, y) == ~x.nan /\ ~y.nan /\ x.v > y.v
JsLt(x, y) == ~x.nan /\ ~y.nan /\ x.v < y.v

\* ethers.isAddress / web3.utils.isAddress: 0x-prefixed hex of address length.
isValidAddress(addr) == addr \in {"0x26d6", "0xa1", "0xb2"}

\* String.prototype.toLowerCase on the addresses of the model.
toLowerCase(s) == IF s = "<ADDRESS_HERE>" THEN "<address_here>" ELSE s

\* ethers.parseEther: throws on a string that is no decimal number.
parseEtherThrows(s) == parseFloat(s).nan

\* The test /^\d*\.?\d+$/ of the web3 implementation.
amountRegexOk(s) == s \in {"0", "1", "2", "3", "2.0"}

\* web3.utils.toWei(s, 'ether') and web3.utils.fromWei(w, 'ether') on decimal strings.
toWei(s) ==
  CASE s = "0" -> "0"
    [] s = "1" -> "1000000000000000000"
    [] s \in {"2", "2.0"} -> "2000000000000000000"
    [] s = "3" -> "3000000000000000000"
    [] OTHER -> "error"
fromWei(w) ==
  CASE w = "0" -> "0"
    [] w = "1000000000000000000" -> "1"
    [] w = "2000000000000000000" -> "2"
    [] w = "3000000000000000000" -> "3"
    [] OTHER -> "error"

\* JavaScript's !== on numbers: NaN differs from everything.
JsNeq(x, y) == x.nan \/ y.nan \/ x.v # y.v

\* Truthiness of a request field of the store (a missing field is None).
Truthy(x) == x # None /\ x # ""
TruthyHash(h) == h # NoHash

\* verifyNetwork: the provider's answer compared with the target chain id;
\* a failed eth_chainId request ("error") is caught and yields false.
verifyNetworkAlways(res) == TRUE
verifyNetwork(res) == res = SHARDEUM_CHAIN_ID

\* ------------------------------------------------------------------ state
VARIABLES
  provChain,     \* window.ethereum: the active chain id
  authorized,    \* window.ethereum: the site may read the account (eth_accounts)
  chainKnown,    \* window.ethereum: the Shardeum chain has been added to the wallet
  svcProvider,   \* ShardeumAPI.provider is set
  signer,        \* ShardeumAPI.signer: None or the signer's account
  walletState,   \* WalletConnect's walletState (the WalletSession)
  conn,          \* WalletConnect.connectWallet: the call in flight, its captured chain id
  wcError,       \* WalletConnect's error
  checks,        \* checkConnection calls: position and captured values
  appLoading,    \* App.isLoading: the creator cards are replaced by placeholders
  modal,         \* the mounted TipModal (at most one: the overlay covers the page)
  attempts,      \* send-tip invocations in flight: position, closure values, counters
  last,          \* the invocation that ended in the step just taken (else Retired)
  nBroadcast,    \* transactions the wallet has broadcast; the n-th has hash n
  transactions,  \* the store's transactions array
  creators,      \* the store's creator statistics
  switches,      \* switchToShardeum invocations
  listeners,     \* window.ethereum: the listeners of each event kind, in order
  fired,         \* the accountsChanged event fired since the listeners last changed
  subsSince,     \* removeAllListeners was called; onAccountsChanged calls since then
  zeroSince,     \* accountsChanged reported no account; no connect or account since
  conv,          \* an amount string taken through parseSHM and formatSHM
  installed,     \* window.ethereum is defined (a wallet extension is injected)
  selected,      \* window.ethereum: the account the wallet has selected
  clock,         \* the store's clock (Date.now())
  addedCreators, \* the store's creators array after its two seeded entries
  reply          \* the store's answer to the last POST /api/tips, and its request

vars == <<provChain, authorized, chainKnown, svcProvider, signer, walletState,
          conn, wcError, checks, appLoading, modal, attempts, last,
          nBroadcast, transactions, creators, switches, listeners, fired,
          subsSince, zeroSince, conv, installed, selected, clock, addedCreators, reply>>

provVars == <<provChain, authorized, chainKnown>>
svcVars == <<svcProvider, signer>>
storeVars == <<transactions, creators>>
sessVars == <<walletState, conn, wcError, checks>>
sendVars == <<attempts, nBroadcast>>
evVars == <<listeners, fired, subsSince, zeroSince>>
extVars == <<installed, selected, clock, addedCreators, reply>>

Disconnected == [isConnected |-> FALSE, address |-> None, balance |-> "0", chainId |-> None]

\* No connectWallet call is in flight; result tells how the last one ended.
IdleConn == [pc |-> "idle", address |-> None, chainId |-> None, result |-> None]

ClosedModal ==
  [open |-> FALSE, creator |-> None, amount |-> "", isLoading |-> FALSE,
   error |-> None, txHash |-> NoHash]

\* totalTips is kept as the number its decimal string denotes.
SeedCreators == [id \in CreatorIds |-> [totalTips |-> [nan |-> FALSE, v |-> 0], tipCount |-> 0]]

NoTx == [fromAddress |-> None, toAddress |-> None, amount |-> "", txHash |-> NoHash,
         creatorId |-> None]

\* The slot of an invocation that has ended (its closure is gone), and the value
\* of last after a step in which no invocation ended.
Retired ==
  [via |-> None, impl |-> None, pc |-> "retired", to |-> None, creatorId |-> None,
   amount |-> "", from |-> None, sessBal |-> "0", mounted |-> FALSE,
   closedInFlight |-> FALSE, checked |-> None, gasPrice |-> None, gasLimit |-> None,
   gasQ |-> 0, estQ |-> 0, submits |-> 0, hash |-> NoHash, recCalls |-> 0,
   recTx |-> NoTx, resp |-> 0, respStatus |-> None, outcome |-> None, tipSent |-> FALSE,
   signedBy |-> None]

\* No invocation ends in this step.
NoEnd == last' = Retired

\* A checkConnection call that has just been made, and what made it: the mount
\* effect, the accountsChanged listener, or the timer set after a network switch.
NewCheck(origin) == [pc |-> "accounts", origin |-> origin, address |-> None, chainId |-> None]

\* The callbacks the page registers: WalletConnect's two listeners and
\* NetworkStatus's checkNetwork; any other callback a caller passes.
WalletConnectListener == "walletConnect"
CheckNetworkListener == "checkNetwork"
OtherCallback == "callback"
Callbacks == {WalletConnectListener, OtherCallback}

\* The listeners after the page's effects have run: NetworkStatus is rendered
\* before WalletConnect, so its chainChanged listener comes first.
MountedListeners ==
  [accountsChanged |-> <<WalletConnectListener>>,
   chainChanged |-> <<CheckNetworkListener, WalletConnectListener>>]

\* No accountsChanged event has fired since the listeners of that kind changed.
NoFire == [kind |-> None, invoked |-> 0]

\* removeAllListeners has not been called yet.
NeverRemoved == [removed |-> FALSE, dropped |-> 0, subs |-> 0]

InitEvents ==
  /\ listeners = MountedListeners
  /\ fired = NoFire
  /\ subsSince = NeverRemoved
  /\ zeroSince = FALSE

\* No POST /api/tips has been handled.
NoReply == [n |-> 0, req |-> NoTx, status |-> 0]

\* A wallet is injected and has Account selected; the store has just started.
InitExt ==
  /\ installed = TRUE
  /\ selected = Account
  /\ clock = 0
  /\ addedCreators = <<>>
  /\ reply = NoReply

\* No conversion has been asked for.
NoConv == [pc |-> "idle", a |-> <<>>, wei |-> <<>>, str |-> <<>>, wei2 |-> <<>>]

\* After construction: the app is mounted and its effects have run: one
\* checkConnection and one fetchCreators are in flight, nothing is connected.
InitClient ==
  /\ svcProvider = FALSE
  /\ signer = None
  /\ walletState = Disconnected
  /\ conn = IdleConn
  /\ wcError = None
  /\ checks = <<NewCheck("mount")>>
  /\ appLoading = TRUE
  /\ modal = ClosedModal
  /\ attempts = <<>>
  /\ last = Retired
  /\ nBroadcast = 0
  /\ transactions = <<>>
  /\ creators = SeedCreators
  /\ switches = <<>>
  /\ InitEvents
  /\ InitExt
  /\ conv = NoConv

\* The page is opened in a browser whose wallet knows the Shardeum chain and has
\* authorised the site before (eth_accounts answers with the account).
Init ==
  /\ provChain \in Chains
  /\ authorized = TRUE
  /\ chainKnown = TRUE
  /\ InitClient

\* The session as checkConnection or connectWallet leaves it on chain c.
Connected(c) ==
  [isConnected |-> TRUE, address |-> Account, balance |-> ChainBalance, chainId |-> c]

NotInstalledMsg == "MetaMask is not installed"

\* The page is opened in a browser without a wallet extension: checkConnection
\* has set the error and returned, no listener could be registered.
InitNoProvider ==
  /\ installed = FALSE
  /\ provChain = OTHER_CHAIN_ID
  /\ authorized = FALSE
  /\ chainKnown = FALSE
  /\ selected = Account
  /\ svcProvider = FALSE
  /\ signer = None
  /\ walletState = Disconnected
  /\ conn = IdleConn
  /\ wcError = NotInstalledMsg
  /\ checks = <<[NewCheck("mount") EXCEPT !.pc = "done"]>>
  /\ appLoading = TRUE
  /\ modal = ClosedModal
  /\ attempts = <<>>
  /\ last = Retired
  /\ nBroadcast = 0
  /\ transactions = <<>>
  /\ creators = SeedCreators
  /\ switches = <<>>
  /\ listeners = [accountsChanged |-> <<>>, chainChanged |-> <<>>]
  /\ fired = NoFire
  /\ subsSince = NeverRemoved
  /\ zeroSince = FALSE
  /\ clock = 0
  /\ addedCreators = <<>>
  /\ reply = NoReply
  /\ conv = NoConv

\* The page is opened with any wallet, authorised or not, or with none.
InitSession ==
  \/ /\ provChain \in Chains
     /\ authorized \in BOOLEAN
     /\ chainKnown = TRUE
     /\ InitClient
  \/ InitNoProvider

\* The page is opened with a wallet that may not know the Shardeum chain.
InitSwitch ==
  /\ provChain \in Chains
  /\ chainKnown \in BOOLEAN
  /\ (provChain = SHARDEUM_CHAIN_ID => chainKnown)
  /\ authorized = TRUE
  /\ InitClient

\* The page at the time another caller uses the services: just opened with any
\* wallet, or with a session established by checkConnection or by connectWallet.
InitApi ==
  /\ provChain \in Chains
  /\ chainKnown = TRUE
  /\ \/ /\ authorized \in BOOLEAN
        /\ InitClient
     \/ /\ authorized = TRUE
        /\ walletState = Connected(provChain)
        /\ svcProvider = TRUE
        /\ signer \in {None, Account}
        /\ checks = <<[pc |-> "done", origin |-> "mount", address |-> Account,
                        chainId |-> provChain]>>
        /\ conn = IdleConn
        /\ wcError = None
        /\ appLoading = FALSE
        /\ modal = ClosedModal
        /\ attempts = <<>>
        /\ last = Retired
        /\ nBroadcast = 0
        /\ transactions = <<>>
        /\ creators = SeedCreators
        /\ switches = <<>>
        /\ InitEvents
        /\ InitExt
        /\ conv = NoConv

\* --------------------------------------------------- wallet provider events
\* How many of the listeners in seq are the callback h.
RECURSIVE Count(_, _)
Count(seq, h) ==
  IF seq = <<>> THEN 0
  ELSE (IF Head(seq) = h THEN 1 ELSE 0) + Count(Tail(seq), h)

\* n checkConnection calls made by the accountsChanged listener.
RECURSIVE NewChecks(_)
NewChecks(n) == IF n = 0 THEN <<>> ELSE <<NewCheck("accounts")>> \o NewChecks(n - 1)

\* The session after the wallet has emitted chainChanged(c): every listener is
\* called; WalletConnect's rewrites the chainId, the others leave the session.
OnChainChangedEvent(c) ==
  IF Count(listeners.chainChanged, WalletConnectListener) > 0
    THEN [walletState EXCEPT !.chainId = c]
    ELSE walletState

\* The accountsChanged listener of WalletConnect on an empty list: the session
\* is replaced by the disconnected one.
SessionOnNoAccountsKeepAddress(ws) == [ws EXCEPT !.isConnected = FALSE]

SessionOnNoAccounts(ws) == Disconnected

\* ShardeumAPI.removeAllListeners: both kinds are cleared, whoever registered.
ListenersAfterRemoveChainOnly(l) == [l EXCEPT !.chainChanged = <<>>]

ListenersAfterRemoveAll(l) == [accountsChanged |-> <<>>, chainChanged |-> <<>>]

\* ShardeumAPI.onAccountsChanged(cb): window.ethereum.on adds the callback after
\* those already registered.
OnAccountsChanged(cb) ==
  /\ installed
  /\ Len(listeners.accountsChanged) < MaxListeners
  /\ listeners' = [listeners EXCEPT !.accountsChanged = Append(@, cb)]
  /\ subsSince' = [subsSince EXCEPT !.subs = @ + 1]
  /\ fired' = NoFire
  /\ UNCHANGED <<provVars, svcVars, sessVars, appLoading, modal, sendVars, storeVars,
                 switches, zeroSince, conv, extVars>>
  /\ NoEnd

\* ShardeumAPI.onChainChanged(cb).
OnChainChanged(cb) ==
  /\ installed
  /\ Len(listeners.chainChanged) < MaxListeners
  /\ listeners' = [listeners EXCEPT !.chainChanged = Append(@, cb)]
  /\ UNCHANGED <<provVars, svcVars, sessVars, appLoading, modal, sendVars, storeVars,
                 switches, fired, subsSince, zeroSince, conv, extVars>>
  /\ NoEnd

\* ShardeumAPI.removeAllListeners().
RemoveAllListeners ==
  /\ installed
  /\ listeners' = ListenersAfterRemoveAll(listeners)
  /\ subsSince' = [removed |-> TRUE, dropped |-> Len(listeners.accountsChanged), subs |-> 0]
  /\ fired' = NoFire
  /\ UNCHANGED <<provVars, svcVars, sessVars, appLoading, modal, sendVars, storeVars,
                 switches, zeroSince, conv, extVars>>
  /\ NoEnd

\* The wallet emits accountsChanged(accs): the user disconnects the site or locks
\* the wallet (no account), or selects an account. Every listener is called once
\* in order; each WalletConnect listener resets the session on an empty list and
\* calls checkConnection otherwise.
AccountsChanged(accs) ==
  LET k == Count(listeners.accountsChanged, WalletConnectListener)
  IN /\ installed
     /\ (accs = <<>> => authorized)
     /\ authorized' = (accs # <<>>)
     /\ selected' = IF accs = <<>> THEN selected ELSE accs[1]
     /\ IF accs = <<>>
          THEN /\ walletState' = IF k > 0 THEN SessionOnNoAccounts(walletState)
                                           ELSE walletState
               /\ zeroSince' = (zeroSince \/ k > 0)
               /\ UNCHANGED checks
          ELSE /\ Len(checks) + k <= MaxChecks
               /\ checks' = checks \o NewChecks(k)
               /\ zeroSince' = FALSE
               /\ UNCHANGED walletState
     /\ fired' = [kind |-> "accountsChanged", invoked |-> Len(listeners.accountsChanged)]
     /\ UNCHANGED <<provChain, chainKnown, svcVars, conn, wcError, appLoading, modal,
                    sendVars, storeVars, switches, listeners, subsSince, conv,
                    installed, clock, addedCreators, reply>>
     /\ NoEnd

\* The user changes the active chain in the wallet; the chainChanged listener
\* registered by setupEventListeners rewrites the session's chainId.
ChainChanged(c) ==
  /\ installed
  /\ c # provChain
  /\ (c = SHARDEUM_CHAIN_ID => chainKnown)
  /\ provChain' = c
  /\ walletState' = OnChainChangedEvent(c)
  /\ UNCHANGED <<authorized, chainKnown, svcVars, conn, wcError, checks, appLoading,
                 modal, sendVars, storeVars, switches>>
  /\ NoEnd
  /\ UNCHANGED <<evVars, conv, extVars>>

\* ------------------------------------------------ WalletConnect: the session
\* checkConnection, first await: eth_accounts.
CheckAccounts(i) ==
  /\ i \in DOMAIN checks
  /\ checks[i].pc = "accounts"
  /\ IF authorized
       THEN checks' = [checks EXCEPT ![i] = [@ EXCEPT !.pc = "chainId", !.address = selected]]
       ELSE checks' = [checks EXCEPT ![i] = [@ EXCEPT !.pc = "done"]]
  /\ UNCHANGED <<provVars, svcVars, walletState, conn, wcError, appLoading, modal,
                 sendVars, storeVars, switches>>
  /\ NoEnd
  /\ UNCHANGED <<evVars, conv, extVars>>

\* checkConnection, second await: eth_chainId; getBalance is then called and
\* creates the service's provider when there is none.
CheckChainId(i) ==
  /\ i \in DOMAIN checks
  /\ checks[i].pc = "chainId"
  /\ checks' = [checks EXCEPT ![i] = [@ EXCEPT !.pc = "balance", !.chainId = provChain]]
  /\ svcProvider' = TRUE
  /\ UNCHANGED <<provVars, signer, walletState, conn, wcError, appLoading, modal,
                 sendVars, storeVars, switches>>
  /\ NoEnd
  /\ UNCHANGED <<evVars, conv, extVars>>

\* checkConnection, third await: the balance arrives; the session is replaced.
CheckBalance(i) ==
  /\ i \in DOMAIN checks
  /\ checks[i].pc = "balance"
  /\ walletState' = [isConnected |-> TRUE, address |-> checks[i].address,
                     balance |-> ChainBalance, chainId |-> checks[i].chainId]
  /\ wcError' = None
  /\ checks' = [checks EXCEPT ![i] = [@ EXCEPT !.pc = "done"]]
  /\ UNCHANGED <<provVars, svcVars, conn, appLoading, modal, sendVars, storeVars, switches>>
  /\ NoEnd
  /\ UNCHANGED <<evVars, conv, extVars>>

\* checkConnection: any of its requests rejects; the catch block sets the error.
CheckFail(i) ==
  /\ i \in DOMAIN checks
  /\ checks[i].pc \in {"accounts", "chainId", "balance"}
  /\ wcError' = "check failed"
  /\ checks' = [checks EXCEPT ![i] = [@ EXCEPT !.pc = "done"]]
  /\ UNCHANGED <<provVars, svcVars, walletState, conn, appLoading, modal, sendVars,
                 storeVars, switches>>
  /\ NoEnd
  /\ UNCHANGED <<evVars, conv, extVars>>

\* The messages connectWallet rejects with.
NoAccountsConnectMsg == "Failed to connect wallet: No accounts found"
RejectedConnectMsg == "Failed to connect wallet: User rejected the request."
FailedConnectMsg == "Failed to connect wallet: request failed"

\* The Connect Wallet button: shown while a wallet is installed and the session
\* is disconnected, disabled while connecting.
ConnectClick ==
  /\ installed
  /\ ~walletState.isConnected
  /\ conn.pc = "idle"
  /\ wcError' = None
  /\ conn' = [IdleConn EXCEPT !.pc = "accounts"]
  /\ UNCHANGED <<provVars, svcVars, walletState, checks, appLoading, modal, sendVars,
                 storeVars, switches>>
  /\ NoEnd
  /\ UNCHANGED <<evVars, conv, extVars>>

\* connectWallet is called where no wallet is installed (the panel shows the
\* install card instead of the button): the call throws before any request.
ConnectNoProvider ==
  /\ ~installed
  /\ conn.pc = "idle"
  /\ conn' = [IdleConn EXCEPT !.result = NotInstalledMsg]
  /\ wcError' = NotInstalledMsg
  /\ UNCHANGED <<provVars, svcVars, walletState, checks, appLoading, modal, sendVars,
                 storeVars, switches>>
  /\ NoEnd
  /\ UNCHANGED <<evVars, conv, extVars>>

\* connectWallet after eth_requestAccounts answered res: the account list, an
\* empty list, or the rejection of the prompt.
AfterRequestAccountsIgnoreEmpty(c, res) ==
  IF res = "rejected"
    THEN [IdleConn EXCEPT !.result = RejectedConnectMsg]
    ELSE [c EXCEPT !.pc = "chainId", !.address = IF res = "empty" THEN None ELSE selected]

AfterRequestAccounts(c, res) ==
  IF res = "rejected"
    THEN [IdleConn EXCEPT !.result = RejectedConnectMsg]
    ELSE IF res = "empty"
      THEN [IdleConn EXCEPT !.result = NoAccountsConnectMsg]
      ELSE [c EXCEPT !.pc = "chainId", !.address = selected]

\* connectWallet: eth_requestAccounts answers; the component shows the error of
\* a call that ended.
ConnectAccounts(res) ==
  /\ conn.pc = "accounts"
  /\ conn' = AfterRequestAccounts(conn, res)
  /\ authorized' = (authorized \/ res = "accounts")
  /\ wcError' = IF conn'.pc = "idle" THEN conn'.result ELSE wcError
  /\ UNCHANGED <<provChain, chainKnown, svcVars, walletState, checks, appLoading, modal,
                 sendVars, storeVars, switches>>
  /\ NoEnd
  /\ UNCHANGED <<evVars, conv, extVars>>

\* connectWallet: eth_chainId answers; provider and signer are initialised when
\* missing (getSigner is awaited only when no signer is cached).
ConnectChainId ==
  /\ conn.pc = "chainId"
  /\ svcProvider' = TRUE
  /\ conn' = [conn EXCEPT !.pc = IF signer = None THEN "signer" ELSE "balance",
                          !.chainId = provChain]
  /\ UNCHANGED <<provVars, signer, walletState, wcError, checks, appLoading, modal,
                 sendVars, storeVars, switches>>
  /\ NoEnd
  /\ UNCHANGED <<evVars, conv, extVars>>

\* connectWallet: provider.getSigner() resolves; the signer is cached.
ConnectSigner ==
  /\ conn.pc = "signer"
  /\ signer' = IF signer = None THEN selected ELSE signer
  /\ conn' = [conn EXCEPT !.pc = "balance"]
  /\ UNCHANGED <<provVars, svcProvider, walletState, wcError, checks, appLoading, modal,
                 sendVars, storeVars, switches>>
  /\ NoEnd
  /\ UNCHANGED <<evVars, conv, extVars>>

\* connectWallet: the balance arrives; the component stores the new session.
ConnectBalance ==
  /\ conn.pc = "balance"
  /\ walletState' = [isConnected |-> TRUE, address |-> conn.address,
                     balance |-> ChainBalance, chainId |-> conn.chainId]
  /\ conn' = [IdleConn EXCEPT !.result = "connected"]
  /\ zeroSince' = FALSE
  /\ UNCHANGED <<provVars, svcVars, wcError, checks, appLoading, modal, sendVars,
                 storeVars, switches>>
  /\ NoEnd
  /\ UNCHANGED <<listeners, fired, subsSince, conv, extVars>>

\* connectWallet: a later request rejects; the error is shown, the session kept.
ConnectFail ==
  /\ conn.pc \in {"chainId", "signer", "balance"}
  /\ conn' = [IdleConn EXCEPT !.result = FailedConnectMsg]
  /\ wcError' = FailedConnectMsg
  /\ UNCHANGED <<provVars, svcVars, walletState, checks, appLoading, modal, sendVars,
                 storeVars, switches>>
  /\ NoEnd
  /\ UNCHANGED <<evVars, conv, extVars>>

\* App.fetchCreators answers (or fails): the creator cards are shown again.
FetchCreatorsDone ==
  /\ appLoading
  /\ appLoading' = FALSE
  /\ UNCHANGED <<provVars, svcVars, sessVars, modal, sendVars, storeVars, switches>>
  /\ NoEnd
  /\ UNCHANGED <<evVars, conv, extVars>>


\* -------------------------------------------------------- switchToShardeum
SwitchFailedMsg == "Failed to switch to Shardeum network"
AddFailedMsg == "Failed to add Shardeum network"

\* switchToShardeum up to its first await: wallet_switchEthereumChain is requested.
SwitchCall ==
  [pc |-> "switching", switchReqs |-> 1, addReqs |-> 0, chainQ |-> 0, code |-> 0,
   outcome |-> None]

\* The switch request rejected with code: on 4902 wallet_addEthereumChain is
\* requested, any other code is rethrown.
AfterSwitchRejected(s, code) ==
  IF code = UnrecognizedChain
    THEN [s EXCEPT !.pc = "adding", !.code = code, !.addReqs = @ + 1]
    ELSE [s EXCEPT !.pc = "failed", !.code = code, !.outcome = SwitchFailedMsg]

\* The add request resolved: the call returns.
AfterAddedRetrySwitch(s) == [s EXCEPT !.pc = "switching", !.switchReqs = @ + 1]
AfterAdded(s) == [s EXCEPT !.pc = "returned", !.outcome = "ok"]

\* The add request rejected: the error is rethrown.
AfterAddRejected(s) == [s EXCEPT !.pc = "failed", !.outcome = AddFailedMsg]

\* WalletConnect.switchToShardeum after the service call ended as s: a
\* checkConnection is scheduled on return, the error is shown on rejection.
ChecksAfterSwitch(s) ==
  IF s.pc = "returned"
    THEN Append(checks, NewCheck("switch"))
    ELSE checks
ErrorAfterSwitch(s) == IF s.pc = "failed" THEN s.outcome ELSE wcError

\* The Switch Network button of the session panel.
SwitchClick ==
  /\ walletState.isConnected
  /\ Len(switches) < MaxSwitchCalls
  /\ switches' = Append(switches, SwitchCall)
  /\ UNCHANGED <<provVars, svcVars, sessVars, appLoading, modal, sendVars, storeVars>>
  /\ NoEnd
  /\ UNCHANGED <<evVars, conv, extVars>>

\* The wallet answers wallet_switchEthereumChain: it activates the chain it
\* knows (the chainChanged listener rewrites the session's chainId), or rejects:
\* with 4902 when it does not know the chain, with another code otherwise.
SwitchResolve(i, ok, code) ==
  /\ switches[i].pc = "switching"
  /\ IF ok
       THEN /\ chainKnown
            /\ provChain' = SHARDEUM_CHAIN_ID
            /\ walletState' = IF provChain # SHARDEUM_CHAIN_ID
                                THEN OnChainChangedEvent(SHARDEUM_CHAIN_ID)
                                ELSE walletState
            /\ LET s == [switches[i] EXCEPT !.pc = "returned", !.outcome = "ok"]
               IN /\ switches' = [switches EXCEPT ![i] = s]
                  /\ checks' = ChecksAfterSwitch(s)
                  /\ wcError' = ErrorAfterSwitch(s)
       ELSE /\ (code = UnrecognizedChain) = ~chainKnown
            /\ LET s == AfterSwitchRejected(switches[i], code)
               IN /\ switches' = [switches EXCEPT ![i] = s]
                  /\ checks' = ChecksAfterSwitch(s)
                  /\ wcError' = ErrorAfterSwitch(s)
            /\ UNCHANGED <<provChain, walletState>>
  /\ UNCHANGED <<authorized, chainKnown, svcVars, conn, appLoading, modal, sendVars,
                 storeVars>>
  /\ NoEnd
  /\ UNCHANGED <<evVars, conv, extVars>>

\* The wallet answers wallet_addEthereumChain: the user approves the addition and
\* then lets the wallet activate the chain or not, or rejects the addition.
AddResolve(i, added, activated) ==
  /\ switches[i].pc = "adding"
  /\ (activated => added)
  /\ chainKnown' = (chainKnown \/ added)
  /\ provChain' = IF activated THEN SHARDEUM_CHAIN_ID ELSE provChain
  /\ walletState' = IF activated /\ provChain # SHARDEUM_CHAIN_ID
                      THEN OnChainChangedEvent(SHARDEUM_CHAIN_ID)
                      ELSE walletState
  /\ LET s == IF added THEN AfterAdded(switches[i]) ELSE AfterAddRejected(switches[i])
     IN /\ switches' = [switches EXCEPT ![i] = s]
        /\ checks' = ChecksAfterSwitch(s)
        /\ wcError' = ErrorAfterSwitch(s)
  /\ UNCHANGED <<authorized, svcVars, conn, appLoading, modal, sendVars, storeVars>>
  /\ NoEnd
  /\ UNCHANGED <<evVars, conv, extVars>>

\* ------------------------------------------------------- send-tip attempts
WrongNetworkMsg == "Please switch to Shardeum Testnet before sending transactions"
WrongNetworkMsgWeb3 == "Please switch to Shardeum Testnet before sending tips"
SubmissionFailedMsg == "provider rejected the transaction"
SubmissionFailedMsgWeb3 == "Failed to send tip: provider rejected the transaction"
NoAccountsMsg == "Failed to send tip: No connected accounts"
InvalidAmountMsgWeb3 == "Failed to send tip: Invalid tip amount"
ConversionMsg == "Failed to send tip: Amount conversion error. Please try again."
InsufficientMsg == "Failed to send tip: Insufficient balance"
RequestFailedMsgWeb3 == "Failed to send tip: request failed"
RpcFailedMsg == "Failed to fetch"
InvalidAmountMsg == "invalid FixedNumber string value"
SignerFailedMsg == "could not get signer"
ApiErrorMsg == "API Error: Missing required fields"
NetworkErrorMsg == "Network Error: Unable to connect to server"

Terminal == {"done", "failed", "returned"}
InFlight(att) == att.pc \notin Terminal \cup {"retired"}

\* A fresh invocation of sendTip(to, amount): the values its closure holds, and
\* the session's balance and address as they are when it is invoked.
NewAttempt(via, impl, pc, to, creatorId, amount) ==
  [Retired EXCEPT !.via = via, !.impl = impl, !.pc = pc, !.to = to,
                  !.creatorId = creatorId, !.amount = amount,
                  !.from = walletState.address, !.sessBal = walletState.balance,
                  !.mounted = (via = "dialog")]

\* A rejection leaving sendTip: the attempt ends in failure with the error's
\* message; the locals of the call are gone.
Failed(att, msg) ==
  [att EXCEPT !.pc = "failed", !.outcome = msg, !.gasPrice = None, !.gasLimit = None]

\* handleSendTip's catch and finally blocks, as far as the dialog is still mounted:
\* setError(err.message); setIsLoading(false).
ModalAfterNoFinally(att, new) ==
  IF att.via = "dialog" /\ att.mounted /\ new.pc = "failed"
    THEN [modal EXCEPT !.error = new.outcome]
    ELSE modal
ModalAfter(att, new) ==
  IF att.via = "dialog" /\ att.mounted /\ new.pc = "failed"
    THEN [modal EXCEPT !.error = new.outcome, !.isLoading = FALSE]
    ELSE modal

\* sendTransaction up to its first await: with no cached signer getSigner is
\* awaited first, else the network check is issued.
SendTransactionEntry == IF signer = None THEN "signer" ELSE "verify"

\* sendTransaction after verifyNetwork resolved with res: a wrong network throws;
\* else the amount is parsed (which may throw) and the gas price query is issued.
AfterVerifyGasFirst(att, res) ==
  IF verifyNetwork(res) /\ ~parseEtherThrows(att.amount)
    THEN [att EXCEPT !.pc = "gasPrice", !.checked = res, !.gasQ = @ + 1]
    ELSE Failed([att EXCEPT !.checked = res, !.gasQ = @ + 1], WrongNetworkMsg)
AfterVerify(att, res) ==
  IF ~verifyNetwork(res)
    THEN Failed([att EXCEPT !.checked = res], WrongNetworkMsg)
    ELSE IF parseEtherThrows(att.amount)
      THEN Failed([att EXCEPT !.checked = res], InvalidAmountMsg)
      ELSE [att EXCEPT !.pc = "gasPrice", !.checked = res, !.gasQ = @ + 1]

\* getGasPrice returned r: "throw" on a transport failure, "undef" when the
\* endpoint answered with an error envelope (data.result is undefined), else "ok".
\* The estimate is then requested: sendTip passes no gas limit.
AfterGasPrice(att, r) ==
  IF r = "throw"
    THEN Failed(att, RpcFailedMsg)
    ELSE [att EXCEPT !.pc = "estimate", !.gasPrice = r, !.estQ = @ + 1]

\* estimateGas returned r; the transaction is handed to the cached signer, which
\* signs for the account it was created for.
AfterEstimate(att, r) ==
  IF r = "throw"
    THEN Failed(att, RpcFailedMsg)
    ELSE [att EXCEPT !.pc = "submitting", !.gasLimit = r, !.submits = @ + 1,
                     !.signedBy = signer]

\* The body of the record call handleSendTip posts for hash h.
RecordTipPayloadFabricated(att, h) ==
  [fromAddress |-> att.from, toAddress |-> att.to, amount |-> att.amount,
   txHash |-> h + 1, creatorId |-> att.creatorId]
RecordTipPayload(att, h) ==
  [fromAddress |-> att.from, toAddress |-> att.to, amount |-> att.amount,
   txHash |-> h, creatorId |-> att.creatorId]

\* The submission resolved with hash h: sendTip returns it; the dialog sets
\* txHash and posts the record, a direct caller just gets the hash.
AfterSubmitted(att, h) ==
  IF att.via = "dialog"
    THEN [att EXCEPT !.pc = "recording", !.hash = h, !.recCalls = @ + 1,
                     !.recTx = RecordTipPayload(att, h),
                     !.gasPrice = None, !.gasLimit = None]
    ELSE [att EXCEPT !.pc = "returned", !.hash = h, !.outcome = "ok",
                     !.gasPrice = None, !.gasLimit = None]

\* The submission rejected: the error is rethrown, nothing is resubmitted.
AfterRejectedRetry(att) == [att EXCEPT !.pc = "submitting", !.submits = @ + 1]
AfterRejected(att) ==
  Failed(att, IF att.impl = "web3" THEN SubmissionFailedMsgWeb3 ELSE SubmissionFailedMsg)

\* Attempt a moves on to new; an attempt that ended leaves its slot.
Put(a, new) ==
  /\ IF new.pc \in Terminal
       THEN /\ attempts' = [attempts EXCEPT ![a] = Retired]
            /\ last' = new
       ELSE /\ attempts' = [attempts EXCEPT ![a] = new]
            /\ last' = Retired
  /\ modal' = ModalAfter(attempts[a], new)

\* sendTransaction: provider.getSigner() resolves (the wallet has authorised the
\* site, asking the user when it had not) and the signer is cached, or rejects.
GetSignerResolve(a, ok) ==
  /\ attempts[a].pc = "signer"
  /\ IF ok
       THEN /\ signer' = selected
            /\ authorized' = TRUE
            /\ Put(a, [attempts[a] EXCEPT !.pc = "verify"])
       ELSE /\ UNCHANGED <<signer, authorized>>
            /\ Put(a, Failed(attempts[a], SignerFailedMsg))
  /\ UNCHANGED <<provChain, chainKnown, svcProvider, sessVars, appLoading, nBroadcast,
                 storeVars, switches>>
  /\ UNCHANGED <<evVars, conv, extVars>>

\* sendTransaction: eth_chainId of verifyNetwork answers with the active chain
\* or fails.
VerifyResolve(a, res) ==
  /\ attempts[a].pc = "verify"
  /\ res \in {provChain, "error"}
  /\ Put(a, AfterVerify(attempts[a], res))
  /\ UNCHANGED <<provVars, svcVars, sessVars, appLoading, nBroadcast, storeVars, switches>>
  /\ UNCHANGED <<evVars, conv, extVars>>

\* sendTransaction: the eth_gasPrice fetch answers.
GasPriceResolve(a, r) ==
  /\ attempts[a].pc = "gasPrice"
  /\ Put(a, AfterGasPrice(attempts[a], r))
  /\ UNCHANGED <<provVars, svcVars, sessVars, appLoading, nBroadcast, storeVars, switches>>
  /\ UNCHANGED <<evVars, conv, extVars>>

\* sendTransaction: the eth_estimateGas fetch answers.
EstimateResolve(a, r) ==
  /\ attempts[a].pc = "estimate"
  /\ Put(a, AfterEstimate(attempts[a], r))
  /\ UNCHANGED <<provVars, svcVars, sessVars, appLoading, nBroadcast, storeVars, switches>>
  /\ UNCHANGED <<evVars, conv, extVars>>

\* The wallet broadcasts the transaction and answers with its hash; the dialog's
\* setTxHash follows. A recipient that is no address cannot be resolved.
SubmitAccepted(a) ==
  /\ attempts[a].pc = "submitting"
  /\ isValidAddress(attempts[a].to)
  /\ nBroadcast' = nBroadcast + 1
  /\ LET new == AfterSubmitted(attempts[a], nBroadcast + 1)
     IN /\ IF new.pc \in Terminal
             THEN /\ attempts' = [attempts EXCEPT ![a] = Retired]
                  /\ last' = new
             ELSE /\ attempts' = [attempts EXCEPT ![a] = new]
                  /\ last' = Retired
        /\ modal' = IF attempts[a].via = "dialog" /\ attempts[a].mounted
                      THEN [modal EXCEPT !.txHash = new.hash]
                      ELSE modal
  /\ UNCHANGED <<provVars, svcVars, sessVars, appLoading, storeVars, switches>>
  /\ UNCHANGED <<evVars, conv, extVars>>

\* The user rejects the transaction in the wallet, or the provider fails.
SubmitRejected(a) ==
  /\ attempts[a].pc = "submitting"
  /\ Put(a, AfterRejected(attempts[a]))
  /\ UNCHANGED <<provVars, svcVars, sessVars, appLoading, nBroadcast, storeVars, switches>>
  /\ UNCHANGED <<evVars, conv, extVars>>

\* ------------------------------------------- Web3Service.sendTip (web3.js)
\* sendTip after verifyNetwork resolved with res: a wrong network throws (outside
\* the try block, so the message is not wrapped); else eth_accounts is requested.
AfterVerifyWeb3(att, res) ==
  IF ~verifyNetwork(res)
    THEN Failed([att EXCEPT !.checked = res], WrongNetworkMsgWeb3)
    ELSE [att EXCEPT !.pc = "w_accounts", !.checked = res]

\* sendTip after eth_accounts answered with account acc (None: no account): the
\* amount is validated by the regular expression and by converting it to wei and
\* back; then the balance is requested.
AfterAccountsWeb3(att, acc) ==
  IF acc = None
    THEN Failed(att, NoAccountsMsg)
    ELSE IF ~amountRegexOk(att.amount)
      THEN Failed(att, InvalidAmountMsgWeb3)
      ELSE IF JsNeq(parseFloat(fromWei(toWei(att.amount))), parseFloat(att.amount))
        THEN Failed(att, ConversionMsg)
        ELSE [att EXCEPT !.pc = "w_balance", !.from = acc]

\* sendTip after getBalance answered balance: an amount above it throws; else the
\* gas estimate is requested.
AfterBalanceWeb3SkipEstimate(att, balance) ==
  IF JsLt(parseFloat(balance), parseFloat(att.amount))
    THEN Failed(att, InsufficientMsg)
    ELSE [att EXCEPT !.pc = "w_gasPrice", !.gasQ = @ + 1]
AfterBalanceWeb3(att, balance) ==
  IF JsLt(parseFloat(balance), parseFloat(att.amount))
    THEN Failed(att, InsufficientMsg)
    ELSE [att EXCEPT !.pc = "w_estimate", !.estQ = @ + 1]

\* sendTip after web3.eth.estimateGas answered: the gas price is requested.
AfterEstimateWeb3(att, r) ==
  IF r = "throw"
    THEN Failed(att, RequestFailedMsgWeb3)
    ELSE [att EXCEPT !.pc = "w_gasPrice", !.gasLimit = r, !.gasQ = @ + 1]

\* sendTip after web3.eth.getGasPrice answered: eth_sendTransaction is requested.
AfterGasPriceWeb3(att, r) ==
  IF r = "throw"
    THEN Failed(att, RequestFailedMsgWeb3)
    ELSE [att EXCEPT !.pc = "submitting", !.gasPrice = r, !.submits = @ + 1,
                     !.signedBy = att.from]

Web3Verify(a, res) ==
  /\ attempts[a].pc = "w_verify"
  /\ res \in {provChain, "error"}
  /\ Put(a, AfterVerifyWeb3(attempts[a], res))
  /\ UNCHANGED <<provVars, svcVars, sessVars, appLoading, nBroadcast, storeVars, switches>>
  /\ UNCHANGED <<evVars, conv, extVars>>

Web3Accounts(a, ok) ==
  /\ attempts[a].pc = "w_accounts"
  /\ Put(a, IF ok
              THEN AfterAccountsWeb3(attempts[a], IF authorized THEN selected ELSE None)
              ELSE Failed(attempts[a], RequestFailedMsgWeb3))
  /\ UNCHANGED <<provVars, svcVars, sessVars, appLoading, nBroadcast, storeVars, switches>>
  /\ UNCHANGED <<evVars, conv, extVars>>

Web3Balance(a, ok) ==
  /\ attempts[a].pc = "w_balance"
  /\ Put(a, IF ok
              THEN AfterBalanceWeb3(attempts[a], fromWei(ChainBalanceWei))
              ELSE Failed(attempts[a], RequestFailedMsgWeb3))
  /\ UNCHANGED <<provVars, svcVars, sessVars, appLoading, nBroadcast, storeVars, switches>>
  /\ UNCHANGED <<evVars, conv, extVars>>

Web3Estimate(a, r) ==
  /\ attempts[a].pc = "w_estimate"
  /\ Put(a, AfterEstimateWeb3(attempts[a], r))
  /\ UNCHANGED <<provVars, svcVars, sessVars, appLoading, nBroadcast, storeVars, switches>>
  /\ UNCHANGED <<evVars, conv, extVars>>

Web3GasPrice(a, r) ==
  /\ attempts[a].pc = "w_gasPrice"
  /\ Put(a, AfterGasPriceWeb3(attempts[a], r))
  /\ UNCHANGED <<provVars, svcVars, sessVars, appLoading, nBroadcast, storeVars, switches>>
  /\ UNCHANGED <<evVars, conv, extVars>>

\* A caller other than the dialog invokes sendTip(to, amount) of either service.
ApiSendTip(impl, to, amount) ==
  /\ Len(attempts) < MaxCalls
  /\ attempts' = Append(attempts,
       NewAttempt("api", impl, IF impl = "ethers" THEN SendTransactionEntry ELSE "w_verify",
                  to, None, amount))
  /\ svcProvider' = (svcProvider \/ impl = "ethers")
  /\ UNCHANGED <<provVars, signer, sessVars, appLoading, modal, nBroadcast, storeVars,
                 switches>>
  /\ NoEnd
  /\ UNCHANGED <<evVars, conv, extVars>>

\* ------------------------------------------------------------------- store
JsAdd(x, y) == IF x.nan \/ y.nan THEN NaN ELSE Num(x.v + y.v)

\* Date.now() at the store: milliseconds, the store having started at StartTime.
StartTime == 1000
DateNow == StartTime + clock

\* POST /api/tips: the status answered for request body req.
PostTipsStatusNoHashCheck(req) ==
  IF ~Truthy(req.fromAddress) \/ ~Truthy(req.toAddress) \/ ~Truthy(req.amount)
    THEN 400
    ELSE 201
PostTipsStatus(req) ==
  IF ~Truthy(req.fromAddress) \/ ~Truthy(req.toAddress) \/ ~Truthy(req.amount)
       \/ ~TruthyHash(req.txHash)
    THEN 400
    ELSE 201

\* POST /api/tips: the record it builds from the body; id is Date.now() as a
\* string, timestamp is kept as the milliseconds its ISO string denotes.
TipRecordConfirmed(req) ==
  [id |-> ToString(DateNow), fromAddress |-> toLowerCase(req.fromAddress),
   toAddress |-> toLowerCase(req.toAddress), amount |-> req.amount,
   txHash |-> req.txHash, creatorId |-> req.creatorId, timestamp |-> DateNow,
   status |-> "confirmed"]
TipRecord(req) ==
  [id |-> ToString(DateNow), fromAddress |-> toLowerCase(req.fromAddress),
   toAddress |-> toLowerCase(req.toAddress), amount |-> req.amount,
   txHash |-> req.txHash, creatorId |-> req.creatorId, timestamp |-> DateNow,
   status |-> "pending"]

\* POST /api/tips: the statistics of the seeded creators after the record was
\* pushed (find reaches them first: they head the creators array).
CreatorsAfter(cs, req) ==
  IF Truthy(req.creatorId) /\ req.creatorId \in DOMAIN cs
    THEN [cs EXCEPT ![req.creatorId] =
            [totalTips |-> JsAdd(@.totalTips, parseFloat(req.amount)),
             tipCount |-> @.tipCount + 1]]
    ELSE cs

\* creators.find(c => c.id === id) past the seeded creators: the index of the
\* first added creator with that id, 0 if there is none.
RECURSIVE FindAdded(_, _, _)
FindAdded(acs, id, i) ==
  IF i > Len(acs) THEN 0
  ELSE IF acs[i].id = id THEN i
  ELSE FindAdded(acs, id, i + 1)

\* POST /api/tips: the statistics of the added creators after the record was
\* pushed.
AddedAfter(acs, req) ==
  LET i == FindAdded(acs, req.creatorId, 1)
  IN IF Truthy(req.creatorId) /\ req.creatorId \notin CreatorIds /\ i > 0
       THEN [acs EXCEPT ![i] =
               [@ EXCEPT !.totalTips = JsAdd(@, parseFloat(req.amount)),
                         !.tipCount = @ + 1]]
       ELSE acs

\* POST /api/tips with body req, from validation to the answer.
HandlePostTips(req) ==
  LET code == PostTipsStatus(req)
  IN /\ IF code = 201
          THEN /\ transactions' = Append(transactions, TipRecord(req))
               /\ creators' = CreatorsAfter(creators, req)
               /\ addedCreators' = AddedAfter(addedCreators, req)
          ELSE UNCHANGED <<transactions, creators, addedCreators>>
     /\ reply' = [n |-> reply.n + 1, req |-> req, status |-> code]

\* The store handles the record call of attempt a and answers.
ServerPostTips(a) ==
  /\ attempts[a].pc = "recording"
  /\ LET req == attempts[a].recTx
         code == PostTipsStatus(req)
     IN /\ HandlePostTips(req)
        /\ attempts' = [attempts EXCEPT ![a] =
             [@ EXCEPT !.pc = "served", !.resp = code,
                       !.respStatus = IF code = 201 THEN TipRecord(req).status ELSE None]]
  /\ UNCHANGED <<provVars, svcVars, sessVars, appLoading, modal, nBroadcast, switches>>
  /\ NoEnd
  /\ UNCHANGED <<evVars, conv, installed, selected, clock>>

\* What only the store touches is left alone by a step of the page.
PageIdle ==
  /\ UNCHANGED <<provVars, svcVars, sessVars, appLoading, modal, sendVars, switches>>
  /\ NoEnd
  /\ UNCHANGED <<evVars, conv, installed, selected>>

\* Any client posts body req to /api/tips.
PostTips(req) ==
  /\ reply.n < MaxPosts
  /\ HandlePostTips(req)
  /\ UNCHANGED clock
  /\ PageIdle

\* POST /api/creators: the creator it pushes.
NewCreator == [id |-> ToString(DateNow), totalTips |-> Num(0), tipCount |-> 0]

\* Any client posts to /api/creators a body with all of name, address and
\* description (complete) or without one of them.
PostCreators(complete) ==
  /\ Len(addedCreators) < MaxCreators
  /\ addedCreators' = IF complete THEN Append(addedCreators, NewCreator) ELSE addedCreators
  /\ UNCHANGED <<transactions, creators, clock, reply>>
  /\ PageIdle

\* Array.prototype.sort with (a, b) => new Date(b.timestamp) - new Date(a.timestamp):
\* a stable sort, newest first.
RECURSIVE InsertByTimestamp(_, _)
InsertByTimestamp(sorted, r) ==
  IF sorted = <<>> THEN <<r>>
  ELSE IF Head(sorted).timestamp >= r.timestamp
         THEN <<Head(sorted)>> \o InsertByTimestamp(Tail(sorted), r)
         ELSE <<r>> \o sorted
SortMarkingConfirmed(s) == [i \in DOMAIN s |-> [s[i] EXCEPT !.status = "confirmed"]]
RECURSIVE SortByTimestampDesc(_)
SortByTimestampDesc(s) ==
  IF s = <<>> THEN <<>>
  ELSE InsertByTimestamp(SortByTimestampDesc(SubSeq(s, 1, Len(s) - 1)), s[Len(s)])

\* GET /api/transactions: the array is sorted in place and sent.
GetTransactions ==
  /\ transactions' = SortByTimestampDesc(transactions)
  /\ UNCHANGED <<creators, clock, addedCreators, reply>>
  /\ PageIdle

\* A millisecond passes at the store.
Tick ==
  /\ clock < MaxClock
  /\ clock' = clock + 1
  /\ UNCHANGED <<transactions, creators, addedCreators, reply>>
  /\ PageIdle

\* ---------------------------------------------------------------- TipModal
\* CreatorCard.handleTipClick: the Send Tip button of a card mounts the dialog.
OpenModal(c) ==
  /\ walletState.isConnected
  /\ ~appLoading
  /\ ~modal.open
  /\ modal' = [ClosedModal EXCEPT !.open = TRUE, !.creator = c]
  /\ UNCHANGED <<provVars, svcVars, sessVars, appLoading, sendVars, storeVars, switches>>
  /\ NoEnd
  /\ UNCHANGED <<evVars, conv, extVars>>

\* The amount field and the predefined amounts, disabled while loading.
SetAmount(s) ==
  /\ modal.open
  /\ ~modal.isLoading
  /\ s # modal.amount
  /\ modal' = [modal EXCEPT !.amount = s]
  /\ UNCHANGED <<provVars, svcVars, sessVars, appLoading, sendVars, storeVars, switches>>
  /\ NoEnd
  /\ UNCHANGED <<evVars, conv, extVars>>

\* Unmounting the dialog: its state is gone, and attempts started from it keep
\* running with their closures (their later setState calls do nothing).
AttemptsOnCloseCancelling(atts) ==
  [i \in DOMAIN atts |->
     IF atts[i].mounted /\ InFlight(atts[i])
       THEN Failed([atts[i] EXCEPT !.mounted = FALSE, !.closedInFlight = TRUE], "cancelled")
       ELSE [atts[i] EXCEPT !.mounted = FALSE]]
AttemptsOnClose(atts) ==
  [i \in DOMAIN atts |->
     IF atts[i].mounted
       THEN [atts[i] EXCEPT !.mounted = FALSE, !.closedInFlight = InFlight(atts[i])]
       ELSE atts[i]]

\* onClose: the X button of the header is always enabled, the Cancel button is
\* disabled while loading.
CloseModal(button) ==
  /\ modal.open
  /\ (button = "cancel" => ~modal.isLoading)
  /\ modal' = ClosedModal
  /\ attempts' = AttemptsOnClose(attempts)
  /\ UNCHANGED <<provVars, svcVars, sessVars, appLoading, nBroadcast, storeVars, switches>>
  /\ NoEnd
  /\ UNCHANGED <<evVars, conv, extVars>>

\* validateForm: None when the form is valid, else the error it sets.
validateForm(amount, balance, address) ==
  IF amount = "" \/ JsLeq(parseFloat(amount), Num(0))
    THEN "Please enter a valid amount"
    ELSE IF JsGt(parseFloat(amount), parseFloat(balance))
      THEN "Insufficient balance"
      ELSE IF ~isValidAddress(address)
        THEN "Invalid creator address"
        ELSE None

\* The Send Tip button of the dialog, disabled while loading and while the
\* amount is empty or not positive.
SendEnabled ==
  /\ ~modal.isLoading
  /\ modal.amount # ""
  /\ ~JsLeq(parseFloat(modal.amount), Num(0))

\* handleSendTip up to its first await: setError(null), validateForm, then
\* setIsLoading(true) and the call of sendTip.
HandleSendTip(max) ==
  /\ modal.open
  /\ SendEnabled
  /\ LET err == validateForm(modal.amount, walletState.balance, CreatorAddress(modal.creator))
     IN IF err # None
          THEN /\ modal' = [modal EXCEPT !.error = err]
               /\ UNCHANGED <<attempts, svcProvider>>
          ELSE /\ Len(attempts) < max
               /\ modal' = [modal EXCEPT !.error = None, !.isLoading = TRUE]
               /\ svcProvider' = TRUE
               /\ attempts' = Append(attempts,
                    NewAttempt("dialog", "ethers", SendTransactionEntry,
                               CreatorAddress(modal.creator), modal.creator, modal.amount))
  /\ UNCHANGED <<provVars, signer, sessVars, appLoading, nBroadcast, storeVars, switches>>
  /\ NoEnd
  /\ UNCHANGED <<evVars, conv, extVars>>

\* The record call's response arrives. 201: onTipSent fires (the card hides its
\* dialog, the app refetches the creators and shows placeholders meanwhile), then
\* setIsLoading(false). 400: the interceptor throws and the catch block runs.
RecordResponse(a) ==
  /\ attempts[a].pc = "served"
  /\ IF attempts[a].resp = 201
       THEN /\ attempts' = [i \in DOMAIN attempts |->
                 IF i = a THEN Retired ELSE [attempts[i] EXCEPT !.mounted = FALSE]]
            /\ last' = [attempts[a] EXCEPT !.pc = "done", !.outcome = "ok", !.tipSent = TRUE]
            /\ modal' = ClosedModal
            /\ appLoading' = TRUE
       ELSE /\ Put(a, Failed(attempts[a], ApiErrorMsg))
            /\ UNCHANGED appLoading
  /\ UNCHANGED <<provVars, svcVars, sessVars, nBroadcast, storeVars, switches>>
  /\ UNCHANGED <<evVars, conv, extVars>>

\* The record call fails without a response: the request never reached the
\* store, or the answer was lost or came after the 10 s timeout.
RecordLost(a) ==
  /\ attempts[a].pc \in {"recording", "served"}
  /\ Put(a, Failed(attempts[a], NetworkErrorMsg))
  /\ UNCHANGED <<provVars, svcVars, sessVars, appLoading, nBroadcast, storeVars, switches>>
  /\ UNCHANGED <<evVars, conv, extVars>>

\* ------------------------------------------------- parseSHM and formatSHM
\* Amount strings and base-unit integers are sequences of characters: a wei
\* amount (a BigInt) is far beyond 2^31.
Decimals == 18
DigitChars == {"0", "1", "2", "3", "4", "5", "6", "7", "8", "9"}

RECURSIVE Zeros(_)
Zeros(n) == IF n = 0 THEN <<>> ELSE <<"0">> \o Zeros(n - 1)

\* BigInt(digits).toString(): no leading zeros, "0" for zero (and for "").
RECURSIVE BigIntOf(_)
BigIntOf(d) ==
  IF d = <<>> THEN <<"0">>
  ELSE IF Head(d) = "0" /\ Len(d) > 1 THEN BigIntOf(Tail(d))
  ELSE d

\* The position of the first point of a, 0 when it has none.
PointAt(a) ==
  IF \E i \in DOMAIN a : a[i] = "."
    THEN CHOOSE i \in DOMAIN a : a[i] = "." /\ \A j \in 1..(i - 1) : a[j] # "."
    ELSE 0

\* match[2] and match[3] of /^(-?)([0-9]*)\.?([0-9]*)$/ for an unsigned string.
WholeOf(a) == IF PointAt(a) = 0 THEN a ELSE SubSeq(a, 1, PointAt(a) - 1)
DecimalOf(a) == IF PointAt(a) = 0 THEN <<>> ELSE SubSeq(a, PointAt(a) + 1, Len(a))

AllDigits(d) == \A i \in DOMAIN d : d[i] \in DigitChars
AllZeros(d) == \A i \in DOMAIN d : d[i] = "0"

\* ethers.parseEther throws: the string does not match, has no digit, or has a
\* non-zero digit after the eighteenth decimal.
parseEtherRejects(a) ==
  \/ ~AllDigits(WholeOf(a))
  \/ ~AllDigits(DecimalOf(a))
  \/ Len(WholeOf(a)) + Len(DecimalOf(a)) = 0
  \/ ~AllZeros(SubSeq(DecimalOf(a), Decimals + 1, Len(DecimalOf(a))))

\* ethers.parseEther(a) for a string it accepts: the decimals are padded to
\* eighteen digits and appended to the whole part; the result is a BigInt.
parseEther(a) ==
  LET decimal == DecimalOf(a)
      padded == IF Len(decimal) < Decimals
                  THEN decimal \o Zeros(Decimals - Len(decimal))
                  ELSE SubSeq(decimal, 1, Decimals)
  IN BigIntOf(WholeOf(a) \o padded)

\* The whole component without leading zeros, one digit kept before the point.
RECURSIVE TrimWhole(_)
TrimWhole(str) ==
  IF Len(str) > 1 /\ str[1] = "0" /\ str[2] # "." THEN TrimWhole(Tail(str)) ELSE str

\* The decimal component without trailing zeros, one digit kept after the point.
RECURSIVE TrimDecimal(_)
TrimDecimal(str) ==
  IF Len(str) > 1 /\ str[Len(str)] = "0" /\ str[Len(str) - 1] # "."
    THEN TrimDecimal(SubSeq(str, 1, Len(str) - 1))
    ELSE str

\* str with the point inserted before its last eighteen characters (before all
\* of them when it has fewer), then trimmed.
PointInserted(str) ==
  LET index == IF Len(str) > Decimals THEN Len(str) - Decimals ELSE 0
  IN TrimDecimal(TrimWhole(SubSeq(str, 1, index) \o <<".">> \o SubSeq(str, index + 1, Len(str))))

\* ethers.formatEther(wei): the digits are padded with zeros, four at a time,
\* until there are more than eighteen, then the point is inserted.
formatEtherNoPad(wei) == PointInserted(wei)

RECURSIVE PadZeros(_)
PadZeros(str) == IF Len(str) <= Decimals THEN PadZeros(Zeros(4) \o str) ELSE str

formatEther(wei) == PointInserted(PadZeros(wei))

\* ShardeumAPI.parseSHM and formatSHM.
parseSHM(shmAmount) == parseEther(shmAmount)
formatSHM(weiAmount) == formatEther(weiAmount)

\* The amount strings a caller passes: up to MaxWhole digits, then nothing or a
\* point and up to MaxFrac digits, these possibly after sixteen zeros.
RECURSIVE Strings(_, _)
Strings(chars, n) ==
  IF n = 0 THEN {<<>>}
  ELSE Strings(chars, n - 1) \cup {Append(t, c) : t \in Strings(chars, n - 1), c \in chars}

ConvInputs ==
  LET wholes == Strings({"0", "1", "9"}, MaxWhole)
      tails == Strings({"0", "5"}, MaxFrac)
      decimals == tails \cup {Zeros(Decimals - 2) \o t : t \in tails}
  IN wholes \cup {w \o <<".">> \o d : w \in wholes, d \in decimals}

\* parseSHM(a) is called.
ConvParse ==
  /\ conv.pc = "start"
  /\ conv' = IF parseEtherRejects(conv.a)
               THEN [conv EXCEPT !.pc = "thrown"]
               ELSE [conv EXCEPT !.pc = "parsed", !.wei = parseSHM(conv.a)]
  /\ UNCHANGED <<provVars, svcVars, sessVars, appLoading, modal, sendVars, storeVars,
                 switches, evVars, extVars>>
  /\ NoEnd

\* formatSHM is called with the result.
ConvFormat ==
  /\ conv.pc = "parsed"
  /\ conv' = [conv EXCEPT !.pc = "formatted", !.str = formatSHM(conv.wei)]
  /\ UNCHANGED <<provVars, svcVars, sessVars, appLoading, modal, sendVars, storeVars,
                 switches, evVars, extVars>>
  /\ NoEnd

\* parseSHM is called with the formatted string.
ConvReparse ==
  /\ conv.pc = "formatted"
  /\ conv' = IF parseEtherRejects(conv.str)
               THEN [conv EXCEPT !.pc = "rethrown"]
               ELSE [conv EXCEPT !.pc = "done", !.wei2 = parseSHM(conv.str)]
  /\ UNCHANGED <<provVars, svcVars, sessVars, appLoading, modal, sendVars, storeVars,
                 switches, evVars, extVars>>
  /\ NoEnd

\* A caller is about to convert one of the amount strings.
InitConv ==
  /\ provChain = SHARDEUM_CHAIN_ID
  /\ authorized = TRUE
  /\ chainKnown = TRUE
  /\ svcProvider = FALSE
  /\ signer = None
  /\ walletState = Disconnected
  /\ conn = IdleConn
  /\ wcError = None
  /\ checks = <<NewCheck("mount")>>
  /\ appLoading = TRUE
  /\ modal = ClosedModal
  /\ attempts = <<>>
  /\ last = Retired
  /\ nBroadcast = 0
  /\ transactions = <<>>
  /\ creators = SeedCreators
  /\ switches = <<>>
  /\ InitEvents
  /\ InitExt
  /\ conv \in {[NoConv EXCEPT !.pc = "start", !.a = a] : a \in ConvInputs}

\* ------------------------------------------------------------ specification
\* The tip dialog driving the service and the store, with at most max attempts
\* started.
Step(max) ==
  \/ \E c \in Chains : ChainChanged(c)
  \/ \E i \in DOMAIN checks : CheckAccounts(i)
  \/ \E i \in DOMAIN checks : CheckChainId(i)
  \/ \E i \in DOMAIN checks : CheckBalance(i)
  \/ \E i \in DOMAIN checks : CheckFail(i)
  \/ FetchCreatorsDone
  \/ \E c \in CreatorIds : OpenModal(c)
  \/ \E s \in AmountStrings : SetAmount(s)
  \/ \E b \in {"x", "cancel"} : CloseModal(b)
  \/ HandleSendTip(max)
  \/ \E a \in DOMAIN attempts, ok \in BOOLEAN : GetSignerResolve(a, ok)
  \/ \E a \in DOMAIN attempts, res \in Chains \cup {"error"} : VerifyResolve(a, res)
  \/ \E a \in DOMAIN attempts, r \in {"ok", "undef", "throw"} : GasPriceResolve(a, r)
  \/ \E a \in DOMAIN attempts, r \in {"ok", "undef", "throw"} : EstimateResolve(a, r)
  \/ \E a \in DOMAIN attempts : SubmitAccepted(a)
  \/ \E a \in DOMAIN attempts : SubmitRejected(a)
  \/ \E a \in DOMAIN attempts : ServerPostTips(a)
  \/ \E a \in DOMAIN attempts : RecordResponse(a)
  \/ \E a \in DOMAIN attempts : RecordLost(a)

Next == Step(MaxAttempts)

Spec == Init /\ [][Next]_vars

\* Every request of an attempt in flight is answered at some time: by the
\* wallet, the RPC endpoint or the store, or by the axios timeout.
Returns ==
  \E a \in DOMAIN attempts :
    \/ \E ok \in BOOLEAN : GetSignerResolve(a, ok)
    \/ \E res \in Chains \cup {"error"} : VerifyResolve(a, res)
    \/ \E r \in {"ok", "undef", "throw"} : GasPriceResolve(a, r)
    \/ \E r \in {"ok", "undef", "throw"} : EstimateResolve(a, r)
    \/ SubmitAccepted(a)
    \/ SubmitRejected(a)
    \/ ServerPostTips(a)
    \/ RecordResponse(a)
    \/ RecordLost(a)

\* The tip dialog where every call eventually returns.
SpecLive == Init /\ [][Next]_vars /\ WF_vars(Returns)

\* The tip dialog in a browser where the user also selects another account in
\* the wallet, before or during an attempt.
NextAccount ==
  \/ Step(MaxAttempts)
  \/ \E accs \in {<<Account>>, <<Account2>>} \ {<<selected>>} : AccountsChanged(accs)

SpecAccount == InitApi /\ [][NextAccount]_vars

\* The same program with room for a second attempt while the first is in flight.
NextOverlap == Step(MaxOverlap)

SpecOverlap == Init /\ [][NextOverlap]_vars

\* The two services called directly: the wallet may not have authorised the
\* site, and the RPC endpoint may answer a query with an error envelope.
NextApi ==
  \/ \E c \in Chains : ChainChanged(c)
  \/ \E impl \in {"ethers", "web3"}, to \in ApiRecipients, amount \in ApiAmounts :
       ApiSendTip(impl, to, amount)
  \/ \E a \in DOMAIN attempts, ok \in BOOLEAN : GetSignerResolve(a, ok)
  \/ \E a \in DOMAIN attempts, res \in Chains \cup {"error"} : VerifyResolve(a, res)
  \/ \E a \in DOMAIN attempts, r \in {"ok", "undef", "throw"} : GasPriceResolve(a, r)
  \/ \E a \in DOMAIN attempts, r \in {"ok", "undef", "throw"} : EstimateResolve(a, r)
  \/ \E a \in DOMAIN attempts, res \in Chains \cup {"error"} : Web3Verify(a, res)
  \/ \E a \in DOMAIN attempts, ok \in BOOLEAN : Web3Accounts(a, ok)
  \/ \E a \in DOMAIN attempts, ok \in BOOLEAN : Web3Balance(a, ok)
  \/ \E a \in DOMAIN attempts, r \in {"ok", "throw"} : Web3Estimate(a, r)
  \/ \E a \in DOMAIN attempts, r \in {"ok", "throw"} : Web3GasPrice(a, r)
  \/ \E a \in DOMAIN attempts : SubmitAccepted(a)
  \/ \E a \in DOMAIN attempts : SubmitRejected(a)

SpecApi == InitApi /\ [][NextApi]_vars

\* The session panel: checkConnection on mount, the wallet's events and the
\* Connect Wallet button.
NextSession ==
  \/ \E c \in Chains : ChainChanged(c)
  \/ \E accs \in {<<>>, <<Account>>} : AccountsChanged(accs)
  \/ \E i \in DOMAIN checks : CheckAccounts(i)
  \/ \E i \in DOMAIN checks : CheckChainId(i)
  \/ \E i \in DOMAIN checks : CheckBalance(i)
  \/ \E i \in DOMAIN checks : CheckFail(i)
  \/ ConnectClick
  \/ \E res \in {"accounts", "empty", "rejected"} : ConnectAccounts(res)
  \/ ConnectNoProvider
  \/ ConnectChainId
  \/ ConnectSigner
  \/ ConnectBalance
  \/ ConnectFail
  \/ FetchCreatorsDone

SpecSession == InitSession /\ [][NextSession]_vars

\* The session panel and its Switch Network button.
NextSwitch ==
  \/ \E c \in Chains : ChainChanged(c)
  \/ \E i \in DOMAIN checks : CheckAccounts(i)
  \/ \E i \in DOMAIN checks : CheckChainId(i)
  \/ \E i \in DOMAIN checks : CheckBalance(i)
  \/ \E i \in DOMAIN checks : CheckFail(i)
  \/ SwitchClick
  \/ \E i \in DOMAIN switches, ok \in BOOLEAN, code \in SwitchErrorCodes :
       SwitchResolve(i, ok, code)
  \/ \E i \in DOMAIN switches, added \in BOOLEAN, activated \in BOOLEAN :
       AddResolve(i, added, activated)

SpecSwitch == InitSwitch /\ [][NextSwitch]_vars

\* The mounted page while a caller subscribes and unsubscribes through the
\* service and the wallet emits its events; the checkConnection calls the events
\* start are followed up to their first answer.
NextListeners ==
  \/ \E cb \in Callbacks : OnAccountsChanged(cb)
  \/ \E cb \in Callbacks : OnChainChanged(cb)
  \/ RemoveAllListeners
  \/ \E accs \in {<<>>, <<Account>>} : AccountsChanged(accs)
  \/ \E c \in Chains : ChainChanged(c)
  \/ \E i \in DOMAIN checks : CheckAccounts(i)

SpecListeners == InitSession /\ [][NextListeners]_vars

\* The conversions applied to one amount string.
NextConv == ConvParse \/ ConvFormat \/ ConvReparse

SpecConv == InitConv /\ [][NextConv]_vars

\* The store alone, called by any HTTP client: bodies with and without their
\* required fields, twice the same hash, creators known and unknown.
FullBodies ==
  {[fromAddress |-> Account, toAddress |-> "0x26d6", amount |-> "1", txHash |-> h,
    creatorId |-> c] :
     h \in 1..2, c \in {None, "1"} \cup {addedCreators[i].id : i \in DOMAIN addedCreators}}
PartialBodies ==
  LET full == [fromAddress |-> Account, toAddress |-> "0x26d6", amount |-> "1",
               txHash |-> 1, creatorId |-> "1"]
  IN {[full EXCEPT !.fromAddress = None], [full EXCEPT !.toAddress = None],
      [full EXCEPT !.amount = ""], [full EXCEPT !.txHash = NoHash]}
StoreBodies == FullBodies \cup PartialBodies

NextStore ==
  \/ \E req \in StoreBodies : PostTips(req)
  \/ \E complete \in BOOLEAN : PostCreators(complete)
  \/ GetTransactions
  \/ Tick

SpecStore == Init /\ [][NextStore]_vars

\* ------------------------------------------------------------------ claims
\* Every invocation of sendTip the state still knows: those in flight and the
\* one that ended in the step just taken.
Invocations == {attempts[i] : i \in DOMAIN attempts} \cup {last}

\* The hashes the wallet has returned so far.
ReturnedHashes == 1..nBroadcast

SubmissionFailures == {SubmissionFailedMsg, WrongNetworkMsg, WrongNetworkMsgWeb3}
RecordFailures == {ApiErrorMsg, NetworkErrorMsg}

\* The network check of the invocation got an answer other than the target chain.
WrongChainAtCheck(att) == att.checked \notin {None, SHARDEUM_CHAIN_ID}

\* C1: an invocation of sendTip made under a session that knows the account's
\* balance, once it has handed its transaction to the wallet, has a positive
\* amount that does not exceed that balance and a recipient that passes
\* isValidAddress.
C1_ValidatedBeforeSubmit ==
  \A att \in Invocations :
    (att.submits > 0 /\ att.sessBal = ChainBalance) =>
      /\ JsGt(parseFloat(att.amount), Num(0))
      /\ ~JsGt(parseFloat(att.amount), parseFloat(att.sessBal))
      /\ isValidAddress(att.to)

\* C2: an invocation whose network check was answered with a chain other than
\* the target has handed no transaction to the wallet, holds no hash and has
\* ended in the wrong-network failure; an invocation that has handed one over
\* was answered with the target chain.
C2_NoSubmitOnWrongChain ==
  \A att \in Invocations :
    /\ WrongChainAtCheck(att) =>
         /\ att.submits = 0
         /\ att.hash = NoHash
         /\ att.pc = "failed"
         /\ att.outcome \in {WrongNetworkMsg, WrongNetworkMsgWeb3}
    /\ att.submits > 0 => att.checked = SHARDEUM_CHAIN_ID

\* C2 witness: a call of the ethers service has just ended in the wrong-network
\* failure after the wallet reported the other chain, nothing was broadcast.
C2_Witness ==
  /\ last.impl = "ethers"
  /\ last.checked = OTHER_CHAIN_ID
  /\ last.outcome = WrongNetworkMsg
  /\ last.submits = 0
  /\ nBroadcast = 0

\* C3: every TipRecord of the store carries a hash the wallet returned for an
\* accepted transaction, no two records carry the same hash, a record call is
\* made only by an invocation that holds such a hash and with exactly that hash,
\* and an invocation whose submission failed has made no record call.
C3_RecordOnlyAfterHash ==
  /\ \A i \in DOMAIN transactions : transactions[i].txHash \in ReturnedHashes
  /\ \A i, j \in DOMAIN transactions :
       transactions[i].txHash = transactions[j].txHash => i = j
  /\ \A att \in Invocations :
       /\ att.recCalls > 0 =>
            /\ TruthyHash(att.hash)
            /\ att.hash \in ReturnedHashes
            /\ att.recTx.txHash = att.hash
       /\ att.resp = 201 =>
            \E i \in DOMAIN transactions : transactions[i].txHash = att.hash
       /\ att.outcome \in SubmissionFailures => att.recCalls = 0 /\ att.hash = NoHash

\* C3 witness: the store holds the record of the first broadcast, and the
\* invocation that made it has just completed.
C3_Witness ==
  /\ Len(transactions) = 1
  /\ transactions[1].txHash = 1
  /\ last.pc = "done"
  /\ last.hash = 1

\* C4: no invocation hands more than one transaction to the wallet, the wallet
\* has broadcast no more transactions than invocations were started, and an
\* invocation that failed in the submission or in the record call has handed
\* over exactly one.
C4_OneSubmissionPerInvocation ==
  /\ \A att \in Invocations :
       /\ att.submits <= 1
       /\ att.outcome \in {SubmissionFailedMsg} \cup RecordFailures => att.submits = 1
       /\ att.outcome \in RecordFailures => att.hash \in ReturnedHashes
  /\ nBroadcast <= Len(attempts)

\* C4 witness: the record call of an invocation failed after its one broadcast.
C4_Witness ==
  /\ last.outcome = NetworkErrorMsg
  /\ last.submits = 1
  /\ nBroadcast = 1
  /\ transactions = <<>>

\* C5: an invocation from the dialog that holds hash H has made exactly one
\* record call, whose body carries H and the invocation's sender, recipient,
\* amount and creator id; the record the store answers with has status pending.
C5_RecordCallCarriesHash ==
  \A att \in Invocations :
    /\ (att.via = "dialog" /\ TruthyHash(att.hash)) =>
         /\ att.recCalls = 1
         /\ att.recTx = [fromAddress |-> att.from, toAddress |-> att.to,
                         amount |-> att.amount, txHash |-> att.hash,
                         creatorId |-> att.creatorId]
    /\ att.resp = 201 =>
         /\ att.respStatus = "pending"
         /\ \E i \in DOMAIN transactions :
              /\ transactions[i].txHash = att.hash
              /\ transactions[i].status = "pending"
              /\ transactions[i].amount = att.amount
              /\ transactions[i].creatorId = att.creatorId

\* C5 witness: the store has answered the record call for hash 1 with a
\* pending record.
C5_Witness ==
  \E i \in DOMAIN attempts :
    /\ attempts[i].pc = "served"
    /\ attempts[i].hash = 1
    /\ attempts[i].resp = 201
    /\ attempts[i].respStatus = "pending"

\* What the dialog renders for its error state: the one red error box.
ErrorBox(m) == IF m.error # None THEN "error" ELSE None

\* C6: when the record call of an invocation fails after its hash exists and
\* the dialog is still mounted, the dialog does not report it in the generic
\* error box.
C6_RecordFailureNotGenericError ==
  (last.via = "dialog" /\ last.mounted /\ TruthyHash(last.hash)
     /\ last.outcome \in RecordFailures)
    => ErrorBox(modal) # "error"

\* C7: at most one invocation started from the dialog is in flight.
C7_OneInFlight ==
  Cardinality({i \in DOMAIN attempts : InFlight(attempts[i])}) <= 1

\* The dialog is unmounted by the user in this step.
UserClose == modal.open /\ ~modal'.open /\ last' = Retired

\* C8: a step that closes the dialog leaves every invocation where it is; an
\* invocation whose dialog was closed while it was in flight still holds a
\* pending request while in flight, makes the record call for its hash once the
\* submission succeeded, ends only by its own resolution or rejection, and fires
\* the tip-sent callback (the creators are refetched) when the record call
\* succeeds.
C8_Inv ==
  \A att \in Invocations :
    att.closedInFlight =>
      /\ att.pc \in {"signer", "verify", "gasPrice", "estimate", "submitting",
                     "recording", "served", "done", "failed"}
      /\ TruthyHash(att.hash) => att.recCalls = 1 /\ att.recTx.txHash = att.hash
      /\ att.pc = "failed" =>
           att.outcome \in {SignerFailedMsg, WrongNetworkMsg, InvalidAmountMsg,
                            RpcFailedMsg, SubmissionFailedMsg, ApiErrorMsg,
                            NetworkErrorMsg}
      /\ att.pc = "done" => att.tipSent /\ appLoading
      /\ att.resp = 201 /\ att.pc \in {"served", "done"} =>
           \E i \in DOMAIN transactions : transactions[i].txHash = att.hash
C8_CloseDoesNotCancel ==
  /\ []C8_Inv
  /\ [][UserClose =>
          /\ Len(attempts') = Len(attempts)
          /\ \A i \in DOMAIN attempts :
               /\ attempts'[i].pc = attempts[i].pc
               /\ attempts'[i].hash = attempts[i].hash
               /\ attempts'[i].outcome = attempts[i].outcome]_vars

\* C8 witness: an invocation whose dialog was closed in flight has completed:
\* its tip is recorded under its hash and the tip-sent callback has fired.
C8_Witness ==
  /\ last.closedInFlight
  /\ last.pc = "done"
  /\ last.tipSent
  /\ \E i \in DOMAIN transactions : transactions[i].txHash = last.hash

\* C10: an invocation whose network check was answered with a chain other than
\* the target has ended in the wrong-network failure having issued no gas-price
\* query, no gas estimation and no submission.
C10_WrongNetworkBeforeGas ==
  \A att \in Invocations :
    WrongChainAtCheck(att) =>
      /\ att.outcome \in {WrongNetworkMsg, WrongNetworkMsgWeb3}
      /\ att.gasQ = 0
      /\ att.estQ = 0
      /\ att.submits = 0

\* C10 witness: a call of the web3 service has just failed as wrong network on
\* the other chain without a gas query.
C10_Witness ==
  /\ last.impl = "web3"
  /\ last.checked = OTHER_CHAIN_ID
  /\ last.outcome = WrongNetworkMsgWeb3
  /\ last.gasQ = 0
  /\ last.estQ = 0

\* C9: a switchToShardeum call whose switch request was rejected with 4902 has
\* issued exactly one add-chain request and exactly one switch request, and no
\* call issues an add-chain request otherwise; no call queries the active chain,
\* and the step that answers the add-chain request ends the call: it returns
\* or fails in that step, whatever chain is then active.
C9_Inv ==
  \A i \in DOMAIN switches :
    LET s == switches[i]
    IN /\ s.switchReqs = 1
       /\ s.addReqs = (IF s.code = UnrecognizedChain THEN 1 ELSE 0)
       /\ s.chainQ = 0
       /\ s.code = UnrecognizedChain => s.pc \in {"adding", "returned", "failed"}
       /\ (s.code = UnrecognizedChain /\ s.pc = "failed") => s.outcome = AddFailedMsg
C9_OneAddNoReswitch ==
  /\ []C9_Inv
  /\ [][\A i \in DOMAIN switches :
          (switches[i].pc = "adding" /\ switches'[i] # switches[i])
            => /\ switches'[i].pc \in {"returned", "failed"}
               /\ switches'[i].switchReqs = switches[i].switchReqs
               /\ switches'[i].addReqs = switches[i].addReqs]_vars

\* C9 witness: a call answered with 4902 has returned after its one add-chain
\* request while the wallet is still on the other chain.
C9_Witness ==
  \E i \in DOMAIN switches :
    /\ switches[i].code = UnrecognizedChain
    /\ switches[i].pc = "returned"
    /\ switches[i].addReqs = 1
    /\ switches[i].switchReqs = 1
    /\ provChain = OTHER_CHAIN_ID

\* C11: an invocation that has handed its transaction to the wallet holds a gas
\* limit that the estimation returned as a result; an estimation that failed or
\* was answered without a result never leads to a submission.
C11_NoSubmitWithoutEstimate ==
  \A att \in Invocations :
    att.pc = "submitting" => att.gasLimit = "ok"

\* C12: no invocation holds a value from a chain RPC read that the endpoint
\* answered with an error envelope: such a read fails instead of returning.
C12_ReadFailsOnErrorEnvelope ==
  \A att \in Invocations :
    att.gasPrice # "undef" /\ att.gasLimit # "undef"

\* C13: an invocation whose chain-id query failed ends with that failure, not
\* with the wrong-network outcome and not with a hash.
C13_FailureSurfacedAsItself ==
  \A att \in Invocations :
    att.checked = "error" =>
      /\ att.outcome \notin {WrongNetworkMsg, WrongNetworkMsgWeb3}
      /\ att.hash = NoHash

\* The amount string is empty, no number, or not positive.
InvalidAmount(s) == s = "" \/ parseFloat(s).nan \/ JsLeq(parseFloat(s), Num(0))

\* C18: an invocation with an amount that is empty, non-numeric or not
\* positive has had no network check answered, has issued no gas query and has
\* handed nothing to the wallet.
C18_InvalidAmountStopsBeforeNetwork ==
  \A att \in Invocations :
    (att.pc # "retired" /\ InvalidAmount(att.amount)) =>
      /\ att.checked = None
      /\ att.gasQ = 0
      /\ att.estQ = 0
      /\ att.submits = 0

\* C19: an invocation made under a session that knows the account's balance,
\* with an amount above that balance, has had no network check answered, has
\* issued no gas query and has handed nothing to the wallet, and when it has
\* ended it has ended as insufficient balance.
C19_InsufficientBalanceBeforeNetwork ==
  \A att \in Invocations :
    (att.sessBal = ChainBalance /\ JsGt(parseFloat(att.amount), parseFloat(att.sessBal))) =>
      /\ att.checked = None
      /\ att.gasQ = 0
      /\ att.estQ = 0
      /\ att.submits = 0
      /\ att.pc \in Terminal => att.outcome = InsufficientMsg

\* The listeners of a kind that were registered through the service (all but
\* the one NetworkStatus registers itself).
ServiceListeners(kind) ==
  SelectSeq(listeners[kind], LAMBDA h : h # CheckNetworkListener)

\* C14: whatever sequence of onAccountsChanged, onChainChanged and
\* removeAllListeners calls has been made, the provider holds at most one
\* listener per event kind registered through the service.
C14_AtMostOneListenerPerKind ==
  /\ Len(ServiceListeners("accountsChanged")) <= 1
  /\ Len(ServiceListeners("chainChanged")) <= 1

\* C15: after removeAllListeners followed by one onAccountsChanged call exactly
\* one accountsChanged listener is registered, and an accountsChanged event
\* fired then invokes exactly one handler, whatever was registered before.
C15_OneHandlerAfterResubscribe ==
  (subsSince.removed /\ subsSince.subs = 1) =>
    /\ Len(listeners.accountsChanged) = 1
    /\ fired.kind = "accountsChanged" => fired.invoked = 1

\* Two listeners were registered, removeAllListeners dropped them, one was
\* registered again and an event has fired.
C15_Witness ==
  /\ subsSince.removed /\ subsSince.dropped = 2 /\ subsSince.subs = 1
  /\ fired.kind = "accountsChanged" /\ fired.invoked = 1

\* C16: once an accountsChanged event without accounts has been handled, the
\* session is disconnected and stays so until connectWallet stores a session or
\* an accountsChanged event reports an account, whatever checkConnection calls
\* were in flight.
C16_StaysDisconnected ==
  zeroSince => (~walletState.isConnected /\ walletState.address = None)

\* A checkConnection call made by one of the origins stores its session in this
\* step.
CheckStoresSession(origins) ==
  \E i \in DOMAIN checks :
    /\ checks[i].origin \in origins
    /\ checks[i].pc = "balance"
    /\ checks'[i].pc = "done"
    /\ wcError' = None

\* C17: the session changes only in a step of connectWallet, of the
\* accountsChanged listener (its checkConnection included) or of the chainChanged
\* listener.
C17_OnlyThreeWriters ==
  [][walletState' # walletState =>
       \/ conn.pc = "balance" /\ conn'.pc = "idle"
       \/ authorized /\ ~authorized'
       \/ CheckStoresSession({"accounts"})
       \/ provChain' # provChain]_vars

\* C20: for every amount string parseSHM accepts (at most eighteen decimals
\* that matter), parseSHM(formatSHM(parseSHM(a))) is parseSHM(a): the formatted
\* string is accepted and parses to the same integer.
C20_RoundTrip ==
  /\ conv.pc # "rethrown"
  /\ conv.pc = "done" => conv.wei2 = conv.wei

\* An amount of 5 wei, written with eighteen decimals, has gone through the
\* three conversions, and the formatted string is not the one passed in.
C20_Witness ==
  /\ conv.pc = "done"
  /\ Len(DecimalOf(conv.a)) = Decimals
  /\ conv.wei = <<"5">>
  /\ conv.str # conv.a
  /\ conv.wei2 = conv.wei

\* The network check, the gas-price query, the estimation and the submission
\* of an invocation are each made at most once, the queries only after the
\* network check was answered with the target chain, the submission only after
\* both queries.
StepsOnceAfterCheck(att) ==
  /\ att.gasQ <= 1 /\ att.estQ <= 1 /\ att.submits <= 1
  /\ (att.gasQ > 0 \/ att.estQ > 0) => att.checked = SHARDEUM_CHAIN_ID
  /\ att.submits > 0 => att.gasQ = 1 /\ att.estQ = 1

\* C23 as stated: every invocation makes its steps in the order network check,
\* gas-price query, gas estimation, submission, each at most once: in
\* particular no estimation is requested before the gas-price query.
C23_GasPriceBeforeEstimate ==
  \A att \in Invocations :
    /\ StepsOnceAfterCheck(att)
    /\ att.estQ > 0 => att.gasQ > 0

\* C23 amended: every invocation makes the network check first, then the
\* gas-price query and the gas estimation (in the order of its service), then
\* the submission, each at most once; the submission never precedes the network
\* check or the estimation.
C23_CheckQueriesSubmit ==
  \A att \in Invocations : StepsOnceAfterCheck(att)

\* An invocation of the web3 service has handed its transaction to the wallet
\* after one estimation and one gas-price query.
C23_Witness ==
  \E a \in DOMAIN attempts :
    /\ attempts[a].impl = "web3"
    /\ attempts[a].pc = "submitting"
    /\ attempts[a].estQ = 1 /\ attempts[a].gasQ = 1 /\ attempts[a].submits = 1

\* C27: in the step that hands a transaction to the signer the wallet's active
\* chain is the target chain, whatever chain changes happened since the
\* network check.
C27_TargetChainAtSubmission ==
  [][\A a \in DOMAIN attempts :
       (a \in DOMAIN attempts' /\ attempts[a].pc # "submitting"
          /\ attempts'[a].pc = "submitting")
         => provChain' = SHARDEUM_CHAIN_ID]_vars

\* C29: when every call returns, a dialog that is loading is eventually not
\* loading any more, and an attempt that ends while its dialog is mounted, in
\* success or in any failure, leaves the dialog not loading.
C29_LoadingEnds ==
  /\ [](\A att \in {last} :
          (att.via = "dialog" /\ att.mounted /\ att.pc \in Terminal) => ~modal.isLoading)
  /\ (modal.isLoading ~> ~modal.isLoading)

\* An attempt has just failed in its open dialog: the error is shown and the
\* dialog is not loading.
C29_Witness ==
  /\ last.via = "dialog" /\ last.mounted /\ last.pc = "failed"
  /\ modal.open /\ modal.error = last.outcome /\ ~modal.isLoading

\* The ways connectWallet fails before it has an account.
EarlyConnectFailures == {NotInstalledMsg, NoAccountsConnectMsg, RejectedConnectMsg}

C25_ConnectedIffAddress ==
  walletState.isConnected <=> (walletState.address # None)

\* A session that connectWallet had stored has been reset by an accountsChanged
\* event without accounts.
C25_Witness ==
  /\ conn.result = "connected"
  /\ zeroSince
  /\ fired.kind = "accountsChanged"
  /\ ~walletState.isConnected /\ walletState.address = None

\* The records of the store that carry creator id, and the sum of the amounts
\* of the first n of them, added the way the store adds.
RECURSIVE SumAmounts(_, _)
SumAmounts(id, n) ==
  IF n = 0 THEN Num(0)
  ELSE IF transactions[n].creatorId = id
         THEN JsAdd(SumAmounts(id, n - 1), parseFloat(transactions[n].amount))
         ELSE SumAmounts(id, n - 1)
TipsOf(id) == {i \in DOMAIN transactions : transactions[i].creatorId = id}
StatsMatch(id, c) ==
  /\ c.tipCount = Cardinality(TipsOf(id))
  /\ c.totalTips = SumAmounts(id, Len(transactions))

\* C22: every creator's tipCount is the number of records that carry its id,
\* and its totalTips the sum of their amounts.
C22_StatsMatchRecords ==
  /\ \A id \in CreatorIds : StatsMatch(id, creators[id])
  /\ \A k \in DOMAIN addedCreators : StatsMatch(addedCreators[k].id, addedCreators[k])

\* C28: no two records of the store carry the same txHash.
C28_DistinctHashes ==
  \A i \in DOMAIN transactions : \A j \in DOMAIN transactions :
    i # j => transactions[i].txHash # transactions[j].txHash

\* C24: every record of the store is pending, and every step keeps each record
\* it finds in the store, with all its fields (the array may be reordered).
C24_RecordsImmutable ==
  /\ [](\A i \in DOMAIN transactions : transactions[i].status = "pending")
  /\ [][\A i \in DOMAIN transactions :
          Count(transactions', transactions[i]) >= Count(transactions, transactions[i])]_vars

\* GET /api/transactions has reordered the array: a record pushed later, in a
\* later millisecond, now comes first; and a creator's statistics were updated.
C24_Witness ==
  /\ Len(transactions) = 2
  /\ transactions[1].timestamp > transactions[2].timestamp
  /\ reply.req.txHash = transactions[1].txHash
  /\ transactions[1].txHash # transactions[2].txHash
  /\ creators["1"].tipCount > 0

\* A request body lacks one of the required fields (absent or empty).
MissingField(req) ==
  \/ req.fromAddress \in {None, ""}
  \/ req.toAddress \in {None, ""}
  \/ req.amount \in {None, ""}
  \/ req.txHash = NoHash

\* C30: a POST /api/tips whose body lacks a required field is answered 400 and
\* leaves the records and the creators as they were.
C30_MissingFieldRejected ==
  [][(reply'.n # reply.n /\ MissingField(reply'.req)) =>
       /\ reply'.status = 400
       /\ transactions' = transactions
       /\ creators' = creators
       /\ addedCreators' = addedCreators]_vars

\* A body without txHash was refused by a store that already holds a record.
C30_Witness ==
  /\ reply.status = 400
  /\ reply.req.txHash = NoHash
  /\ reply.req.fromAddress # None
  /\ Len(transactions) > 0

\* C26: the fromAddress of the record the dialog posts is the account whose
\* signer submitted the transaction.
C26_RecordedSenderIsSigner ==
  \A i \in DOMAIN attempts :
    (attempts[i].via = "dialog" /\ attempts[i].recCalls > 0) =>
      attempts[i].recTx.fromAddress = attempts[i].signedBy
====
